---- MODULE Spec2Model ----
(***************************************************************************)
(* A model of the two algorithmic parts of the repository:                 *)
(*   - tasks::link::run  (src/src/tasks/link.rs): the symlink synchronizer *)
(*   - env::get_env      (src/src/env.rs): the environment resolver        *)
(* The file system is a map from absolute paths to nodes; path resolution  *)
(* follows symbolic links the way the system calls used by the code do.    *)
(***************************************************************************)
EXTENDS Integers, Sequences, FiniteSets, TLC

VARIABLES
    fs,         \* the file system: absolute path -> node
    dirs,       \* from_dir, to_dir and backup_dir as resolve_directory returned them
    src,        \* ghost: the entries below from_dir (relative paths) when the run started
    pc,         \* position of tasks::link::run
    todo,       \* the WalkDir iterator: a stack of opened directories, each with the
                \* entries it has still to yield; the head is the deepest
    cur,        \* the entry being processed (rel_path), <<>> when none
    result,     \* "none" | "ok" | the error of the run
    runNo,      \* number of the current run of tasks::link::run
    fsStart,    \* ghost: fs when the current run started
    fsEntry,    \* ghost: fs when processing of the current entry started
    fsLink,     \* ghost: fs when link_path was entered for the current entry
    fsPrev,     \* ghost: fs when the previous run returned
    processed,  \* ghost: entries processed so far in this run (sequence)
    seen,       \* create_parent_dir: the ancestors its loop has examined for the entry
    env,        \* get_env: the env map (name -> value)
    config,     \* get_env: input_env, the raw config (name -> value)
    order,      \* get_env: the order in which config_env.iter() yields the keys
    seed,       \* ghost: env as seeded from the inherited variables (lines 15-22)
    unresolved, \* get_env: unresolved_env (sequence of keys)
    epc,        \* position of get_env
    eresult,    \* "none" | "ok" | "lookup" (EnvLookup) | "cycle" (the bail! of line 90)
    evar,       \* the var of an EnvLookup error, "" when none
    passes      \* ghost: number of passes of the fixed-point loop so far

linkVars == <<fs, dirs, src, pc, todo, cur, result, runNo, fsStart, fsEntry, fsLink,
              fsPrev, processed, seen>>
envVars == <<env, config, order, seed, unresolved, epc, eresult, evar, passes>>
vars == <<fs, dirs, src, pc, todo, cur, result, runNo, fsStart, fsEntry, fsLink, fsPrev,
          processed, seen,
          env, config, order, seed, unresolved, epc, eresult, evar, passes>>

(***************************************************************************)
(* Bounds of the model.                                                    *)
(***************************************************************************)
MaxRuns == 2
MaxLinkHops == 4

(***************************************************************************)
(* Paths and nodes.                                                        *)
(***************************************************************************)
FromDir == <<"from">>
ToDir == <<"to">>
BackupDir == <<"backup">>
ElseDir == <<"other", "d">>
ElseFile == <<"other", "f">>
Gone == <<"other", "x">>

\* The source trees of the model, each the set of its entries (relative paths
\* of the non-directories below from_dir): none, a top-level entry, an entry in
\* a directory, one three levels deep, two in one directory, two in two
\* directories, and a top-level entry beside a directory.
SourceTrees ==
    { {},
      { <<"a">> },
      { <<"a", "a">> },
      { <<"a", "b">> },
      { <<"a", "b", "a">> },
      { <<"a", "a">>, <<"a", "b">> },
      { <<"a", "a">>, <<"b", "a">> },
      { <<"a">>, <<"b", "a">> } }

RelPaths == UNION SourceTrees

IsPrefix(p, q) == Len(p) <= Len(q) /\ SubSeq(q, 1, Len(p)) = p
IsProperPrefix(p, q) == Len(p) < Len(q) /\ SubSeq(q, 1, Len(p)) = p
Parent(p) == SubSeq(p, 1, Len(p) - 1)

\* Every relative path that names an entry or one of its ancestors.
Prefixes(r) == { SubSeq(r, 1, n) : n \in 1..Len(r) }
RelUniverse == UNION { Prefixes(r) : r \in RelPaths }

AllPaths ==
    { FromDir, ToDir, BackupDir, <<"other">>, ElseDir, ElseFile }
    \cup { FromDir \o r : r \in RelUniverse }
    \cup { ToDir \o r : r \in RelUniverse }
    \cup { BackupDir \o r : r \in RelUniverse }
    \cup { ElseDir \o Tail(r) : r \in { q \in RelUniverse : Len(q) > 1 } }

None == [kind |-> "none", data |-> <<>>]
Dir == [kind |-> "dir", data |-> <<>>]
File(id) == [kind |-> "file", data |-> id]
Link(target) == [kind |-> "link", data |-> target]

\* The node stored at a physical path; the root is a directory, and a path
\* outside the modelled universe holds nothing.
NodeAt(f, p) ==
    IF p = <<>> THEN Dir ELSE IF p \in DOMAIN f THEN f[p] ELSE None

(***************************************************************************)
(* Path resolution (path_resolution(7)): every component but the last is   *)
(* followed through symbolic links; the last one only when followLast.     *)
(* The result names the physical path of the last component.               *)
(***************************************************************************)
RECURSIVE Walk(_, _, _, _, _)
Walk(f, at, rest, followLast, hops) ==
    IF rest = <<>> THEN [err |-> "", path |-> at]
    ELSE
        LET cand == Append(at, Head(rest))
            n == NodeAt(f, cand)
            last == Len(rest) = 1
        IN  IF n.kind = "link" /\ (~last \/ followLast)
            THEN IF hops = 0 THEN [err |-> "ELOOP", path |-> cand]
                 ELSE Walk(f, <<>>, n.data \o Tail(rest), followLast, hops - 1)
            ELSE IF last THEN [err |-> "", path |-> cand]
            ELSE IF n.kind = "dir" THEN Walk(f, cand, Tail(rest), followLast, hops)
            ELSE IF n.kind = "none" THEN [err |-> "ENOENT", path |-> cand]
            ELSE [err |-> "ENOTDIR", path |-> cand]

\* The physical place of the last component of p, no link followed there.
Place(f, p) == Walk(f, <<>>, p, FALSE, MaxLinkHops)

\* The node a resolution w ended at, nothing when it failed.
NodeOf(f, w) == IF w.err = "" THEN NodeAt(f, w.path) ELSE None

\* stat(2): the node a path leads to, following every link.
Stat(f, p) == NodeOf(f, Walk(f, <<>>, p, TRUE, MaxLinkHops))

\* lstat(2): the node a path names, not following a link in the last component.
LStat(f, p) == NodeOf(f, Place(f, p))

\* Path::exists, Path::is_dir, Path::is_file follow links; symlink_metadata does not.
Exists(f, p) == Stat(f, p).kind # "none"
IsDir(f, p) == Stat(f, p).kind = "dir"
IsFile(f, p) == Stat(f, p).kind = "file"
SymlinkMetadataOk(f, p) == LStat(f, p).kind # "none"

\* The physical paths below p that hold something.
Below(f, p) == { q \in DOMAIN f : IsProperPrefix(p, q) /\ f[q].kind # "none" }

(***************************************************************************)
(* System calls.  Each returns [err, fs]: err = "" and the new file        *)
(* system, or an error and the file system as the call left it.            *)
(***************************************************************************)
Fail(f, e) == [err |-> e, fs |-> f]
Done(f) == [err |-> "", fs |-> f]

\* map_err: a failed call r is reported as error e.
Tag(r, e) == IF r.err # "" THEN Fail(r.fs, e) ELSE r

\* A node is written at the place w, which must be free.
PutAt(f, w, node) ==
    IF w.err # "" THEN Fail(f, w.err)
    ELSE IF NodeAt(f, w.path).kind # "none" THEN Fail(f, "EEXIST")
    ELSE IF w.path \notin DOMAIN f THEN Fail(f, "ENOSPC")
    ELSE Done([f EXCEPT ![w.path] = node])

\* mkdir(2)
Mkdir(f, p) == PutAt(f, Place(f, p), Dir)

\* symlink(2), as std::os::unix::fs::symlink
Symlink(f, target, p) == PutAt(f, Place(f, p), Link(target))

\* std::fs::create_dir_all
RECURSIVE CreateDirAll(_, _)
RECURSIVE CreateDirAllParent(_, _, _)

\* The second mkdir of create_dir_all, after the parent was created.
CreateDirAllRetry(g, p, m2) ==
    IF m2.err = "" THEN m2
    ELSE IF IsDir(g, p) THEN Done(g)
    ELSE Fail(g, m2.err)

CreateDirAllAfterParent(p, up) ==
    IF up.err # "" THEN up ELSE CreateDirAllRetry(up.fs, p, Mkdir(up.fs, p))

CreateDirAllParent(f, p, m) ==
    IF m.err = "" THEN m
    ELSE IF m.err # "ENOENT"
    THEN IF IsDir(f, p) THEN Done(f) ELSE Fail(f, m.err)
    ELSE CreateDirAllAfterParent(p, CreateDirAll(f, Parent(p)))

CreateDirAll(f, p) ==
    IF p = <<>> THEN Done(f) ELSE CreateDirAllParent(f, p, Mkdir(f, p))

\* rename(2) between the places ws and wd: the node at ws (a directory with all
\* below it) moves to wd, replacing a file, a link or an empty directory there.
\* A move into the source's own subtree is EINVAL and one onto a directory above
\* the source is ENOTEMPTY, both decided before the kinds are compared.
RenameAt(f, ws, wd) ==
    IF ws.err # "" THEN Fail(f, ws.err)
    ELSE IF wd.err # "" THEN Fail(f, wd.err)
    ELSE IF NodeAt(f, ws.path).kind = "none" THEN Fail(f, "ENOENT")
    ELSE IF ws.path = wd.path THEN Done(f)
    ELSE IF IsPrefix(ws.path, wd.path) THEN Fail(f, "EINVAL")
    ELSE IF IsPrefix(wd.path, ws.path) THEN Fail(f, "ENOTEMPTY")
    ELSE IF NodeAt(f, ws.path).kind = "dir" /\ NodeAt(f, wd.path).kind \notin {"none", "dir"}
    THEN Fail(f, "ENOTDIR")
    ELSE IF NodeAt(f, ws.path).kind = "dir" /\ Below(f, wd.path) # {}
    THEN Fail(f, "ENOTEMPTY")
    ELSE IF NodeAt(f, ws.path).kind # "dir" /\ NodeAt(f, wd.path).kind = "dir"
    THEN Fail(f, "EISDIR")
    ELSE IF wd.path \notin DOMAIN f THEN Fail(f, "ENOSPC")
    ELSE Done([q \in DOMAIN f |->
            IF IsPrefix(wd.path, q)
            THEN NodeAt(f, ws.path \o SubSeq(q, Len(wd.path) + 1, Len(q)))
            ELSE IF IsPrefix(ws.path, q) THEN None
            ELSE f[q]])

Rename(f, from, to) == RenameAt(f, Place(f, from), Place(f, to))

\* unlink(2) at the place w, as std::fs::remove_file
RemoveFileAt(f, w) ==
    IF w.err # "" THEN Fail(f, w.err)
    ELSE IF NodeAt(f, w.path).kind = "none" THEN Fail(f, "ENOENT")
    ELSE IF NodeAt(f, w.path).kind = "dir" THEN Fail(f, "EISDIR")
    ELSE Done([f EXCEPT ![w.path] = None])

RemoveFile(f, p) == RemoveFileAt(f, Place(f, p))

\* rmdir(2) at the place w, as std::fs::remove_dir
RemoveDirAt(f, w) ==
    IF w.err # "" THEN Fail(f, w.err)
    ELSE IF NodeAt(f, w.path).kind = "none" THEN Fail(f, "ENOENT")
    ELSE IF NodeAt(f, w.path).kind # "dir" THEN Fail(f, "ENOTDIR")
    ELSE IF Below(f, w.path) # {} THEN Fail(f, "ENOTEMPTY")
    ELSE Done([f EXCEPT ![w.path] = None])

RemoveDir(f, p) == RemoveDirAt(f, Place(f, p))

(***************************************************************************)
(* tasks::link (src/src/tasks/link.rs).  The operators return [err, fs]:   *)
(* the error of the call ("" for Ok) and the file system it leaves.        *)
(***************************************************************************)

\* Variant of Ancestors that goes from the top-level component downward.
AncestorsTopDown(rel) == [i \in 1..(Len(rel) - 1) |-> SubSeq(rel, 1, i)]

\* rel_path.ancestors().skip(1).filter(|p| p != ""): immediate parent first.
Ancestors(rel) == [i \in 1..(Len(rel) - 1) |-> SubSeq(rel, 1, Len(rel) - i)]

\* fs::rename to backup_path once the directory for it was made (mk); a failed
\* rename is reported as error e.
MoveAfter(mk, to_path, backup_path, e) ==
    IF mk.err # "" THEN Fail(mk.fs, "CreateDirError")
    ELSE Tag(Rename(mk.fs, to_path, backup_path), e)

\* Lines 158-172: the ancestor is a file (or a link to one) and goes to backup_dir.
BackupAncestor(f, to_dir, path, backup_dir) ==
    MoveAfter(IF Parent(path) # <<>>
              THEN CreateDirAll(f, backup_dir \o Parent(path))
              ELSE Done(f),
              to_dir \o path, backup_dir \o path, "IoError")

\* Lines 145-178: one ancestor of the entry is examined.
AncestorStep(f, to_dir, path, backup_dir) ==
    IF Exists(f, to_dir \o path) \/ SymlinkMetadataOk(f, to_dir \o path)
    THEN IF IsDir(f, to_dir \o path) THEN Fail(f, "ParentIsDirectory")
         ELSE IF IsFile(f, to_dir \o path) THEN BackupAncestor(f, to_dir, path, backup_dir)
         ELSE Tag(RemoveFile(f, to_dir \o path), "IoError")
    ELSE Done(f)

\* Line 144: the loop over the ancestors from index i on; `?` and ensure! leave it.
RECURSIVE AncestorLoop(_, _, _, _, _)
AncestorNext(to_dir, backup_dir, anc, i, st) ==
    IF st.err # "" THEN st ELSE AncestorLoop(st.fs, to_dir, backup_dir, anc, i + 1)

AncestorLoop(f, to_dir, backup_dir, anc, i) ==
    IF i > Len(anc) THEN Done(f)
    ELSE AncestorNext(to_dir, backup_dir, anc, i, AncestorStep(f, to_dir, anc[i], backup_dir))

\* Line 181: the directory is created again after the walk up the tree.
CreateParentAgain(to_dir, rel_path, walked) ==
    IF walked.err # "" THEN walked
    ELSE Tag(CreateDirAll(walked.fs, Parent(to_dir \o rel_path)), "CreateParentFailed")

\* Lines 142-182: or_else runs only when the first create_dir_all failed.
CreateParentOrElse(f, to_dir, rel_path, backup_dir, first) ==
    IF first.err = "" THEN first
    ELSE CreateParentAgain(to_dir, rel_path,
                           AncestorLoop(f, to_dir, backup_dir, Ancestors(rel_path), 1))

create_parent_dir(f, to_dir, rel_path, backup_dir) ==
    CreateParentOrElse(f, to_dir, rel_path, backup_dir,
                       CreateDirAll(f, Parent(to_dir \o rel_path)))

\* What link_path does before it creates the link: [err, fs, skip].
Keep(r) == [err |-> r.err, fs |-> r.fs, skip |-> FALSE]

\* Variant of ClearExisting that removes an empty directory instead of moving it.
ClearExistingRemoveDir(f, from_path, to_dir, rel_path, backup_dir, t) ==
    IF t.kind = "link"
    THEN IF t.data = from_path
         THEN [err |-> "", fs |-> f, skip |-> TRUE]
         ELSE Keep(Tag(RemoveFile(f, to_dir \o rel_path), "DeleteError"))
    ELSE IF t.kind = "dir"
    THEN Keep(Tag(RemoveDir(f, to_dir \o rel_path), "DeleteError"))
    ELSE Keep(MoveAfter(CreateDirAll(f, Parent(backup_dir \o rel_path)),
                        to_dir \o rel_path, backup_dir \o rel_path, "RenameError"))

\* Lines 196-252: to_path exists and t is its symlink_metadata.
ClearExisting(f, from_path, to_dir, rel_path, backup_dir, t) ==
    IF t.kind = "link"
    THEN IF t.data = from_path
         THEN [err |-> "", fs |-> f, skip |-> TRUE]
         ELSE Keep(Tag(RemoveFile(f, to_dir \o rel_path), "DeleteError"))
    ELSE IF t.kind = "dir"
    THEN Keep(MoveAfter(CreateDirAll(f, backup_dir \o rel_path),
                        to_dir \o rel_path, backup_dir \o rel_path, "RenameError"))
    ELSE IF t.kind = "file"
    THEN Keep(MoveAfter(CreateDirAll(f, Parent(backup_dir \o rel_path)),
                        to_dir \o rel_path, backup_dir \o rel_path, "RenameError"))
    ELSE Keep(Done(f))

\* Lines 195-266.
ClearTarget(f, from_path, to_dir, rel_path, backup_dir) ==
    IF Exists(f, to_dir \o rel_path)
    THEN ClearExisting(f, from_path, to_dir, rel_path, backup_dir,
                       LStat(f, to_dir \o rel_path))
    ELSE IF SymlinkMetadataOk(f, to_dir \o rel_path)
    THEN Keep(Tag(RemoveFile(f, to_dir \o rel_path), "DeleteError"))
    ELSE Keep(Done(f))

\* Lines 267-275: the link is created unless the existing one was right.
LinkAfterClear(from_path, to_dir, rel_path, c) ==
    IF c.err # "" THEN Fail(c.fs, c.err)
    ELSE IF c.skip THEN Done(c.fs)
    ELSE Tag(Symlink(c.fs, from_path, to_dir \o rel_path), "SymlinkError")

link_path(f, from_path, to_dir, rel_path, backup_dir) ==
    LinkAfterClear(from_path, to_dir, rel_path,
                   ClearTarget(f, from_path, to_dir, rel_path, backup_dir))

\* Path::canonicalize: the physical path a path leads to, every link followed.
Canonical(f, p) == Walk(f, <<>>, p, TRUE, MaxLinkHops).path

\* Variant of resolve_directory without the ensure!.
resolve_directoryNoCheck(f, dir_path) == [err |-> "", path |-> dir_path]

\* Lines 121-137: the directory must exist; the result is its canonical path.
resolve_directory(f, dir_path) ==
    IF IsDir(f, dir_path) THEN [err |-> "", path |-> Canonical(f, dir_path)]
    ELSE [err |-> "MissingDir", path |-> dir_path]

\* The names a directory entry can have in the model.
EntryNames == { q[Len(q)] : q \in AllPaths }

\* What fs::read_dir yields for the directory at p, as a set of entries
\* [name, dir]: dir tells whether the entry's file type is a directory (links
\* are not followed for the type).  Nothing when p cannot be opened.
ReadDir(f, p) ==
    IF ~IsDir(f, p) THEN {}
    ELSE { [name |-> n, dir |-> NodeAt(f, Append(Canonical(f, p), n)).kind = "dir"] :
             n \in { m \in EntryNames : NodeAt(f, Append(Canonical(f, p), m)).kind # "none" } }

\* The orders in which a directory can yield a set of entries.
Listings(S) ==
    { s \in [1..Cardinality(S) -> S] : \A i, j \in DOMAIN s : i # j => s[i] # s[j] }

\* The non-directory entries below the directory at p, as relative paths: what a
\* walk of an unchanging tree yields (links are not followed below p).
RECURSIVE EntriesBelow(_, _)
EntriesBelow(f, p) ==
    UNION { IF e.dir
            THEN { <<e.name>> \o r : r \in EntriesBelow(f, Append(p, e.name)) }
            ELSE { <<e.name>> } : e \in ReadDir(f, p) }

Entries(f, from_dir) == EntriesBelow(f, from_dir)

(***************************************************************************)
(* Initial file systems.  The source tree is one of SourceTrees; to_dir    *)
(* holds, at each path an entry or an ancestor of one will use,     *)
(* nothing, a file, a directory or a symbolic link (to the source path, to *)
(* a file elsewhere, to a directory elsewhere, or to nothing); backup_dir  *)
(* is absent, empty or holds one earlier backup.                           *)
(***************************************************************************)
Relevant(E) == UNION { Prefixes(r) : r \in E }

\* "full" is a directory that holds a file named "a".
ToKinds == {"none", "file", "dir", "full", "lsrc", "lfile", "ldir", "lbroken"}

ToLayouts(E) ==
    { k \in [Relevant(E) -> ToKinds] :
        \A p \in Relevant(E) :
            /\ (Len(p) > 1 /\ k[p] # "none") => k[Parent(p)] = "dir"
            /\ k[p] = "full" => (p \in E /\ Append(p, "a") \in RelUniverse) }

ToNode(kind, p) ==
    CASE kind = "file" -> File(ToDir \o p)
      [] kind \in {"dir", "full"} -> Dir
      [] kind = "lsrc" -> Link(FromDir \o p)
      [] kind = "lfile" -> Link(ElseFile)
      [] kind = "ldir" -> Link(ElseDir)
      [] kind = "lbroken" -> Link(Gone)
      [] OTHER -> None

BackupLayouts(E) ==
    { <<<<>>, "absent">>, <<<<>>, "empty">> }
    \cup { <<p, kind>> : p \in (Relevant(E) \cup { Append(r, "a") : r \in E }) \cap RelUniverse,
                         kind \in {"file", "dir"} }

\* Whether the directory elsewhere already holds a file named "a".
ElseLayouts(k) ==
    IF \E p \in DOMAIN k : Len(p) = 1 /\ k[p] = "ldir" THEN BOOLEAN ELSE {FALSE}

\* The source entries that are links to nothing: at most one.
DanglingSets(E) == { D \in SUBSET E : Cardinality(D) <= 1 }

\* from_dir or to_dir is absent, or is a regular file.
BadRoots == {"noFrom", "noTo", "noBoth", "fileFrom", "fileTo"}

\* from_dir, to_dir or backup_dir is a symbolic link to the directory elsewhere,
\* or to_dir and backup_dir are one directory: one is a link to the other.
LinkRoots == {"linkFrom", "linkTo", "linkBackup", "toIsBackup", "backupIsTo"}

MakeFs(E, D, k, b, e, roots) ==
    [q \in AllPaths |->
        IF q \in {<<"other">>, ElseDir} THEN Dir
        ELSE IF q = ElseFile THEN File(ElseFile)
        ELSE IF q = ElseDir \o <<"a">> THEN (IF e THEN File(q) ELSE None)
        ELSE IF q = FromDir
        THEN (IF roots \in {"noFrom", "noBoth"} THEN None
              ELSE IF roots = "fileFrom" THEN File(q)
              ELSE IF roots = "linkFrom" THEN Link(ElseDir) ELSE Dir)
        ELSE IF q = ToDir
        THEN (IF roots \in {"noTo", "noBoth"} THEN None
              ELSE IF roots = "fileTo" THEN File(q)
              ELSE IF roots = "linkTo" THEN Link(ElseDir)
              ELSE IF roots = "toIsBackup" THEN Link(BackupDir) ELSE Dir)
        ELSE IF q = BackupDir
        THEN (IF roots = "linkBackup" THEN Link(ElseDir)
              ELSE IF roots = "backupIsTo" THEN Link(ToDir)
              ELSE IF b[2] = "absent" THEN None ELSE Dir)
        ELSE IF Head(q) = "from"
        THEN IF Tail(q) \in D THEN Link(Gone)
             ELSE IF Tail(q) \in E THEN File(q)
             ELSE IF \E r \in E : IsProperPrefix(Tail(q), r) THEN Dir
             ELSE None
        ELSE IF Head(q) = "to"
        THEN IF Tail(q) \in DOMAIN k THEN ToNode(k[Tail(q)], Tail(q))
             ELSE IF /\ Parent(Tail(q)) \in DOMAIN k
                     /\ k[Parent(Tail(q))] = "full"
                     /\ q[Len(q)] = "a"
             THEN File(q)
             ELSE None
        ELSE IF Head(q) = "backup" /\ b[1] # <<>>
        THEN IF Tail(q) = b[1] THEN (IF b[2] = "file" THEN File(q) ELSE Dir)
             ELSE IF IsProperPrefix(Tail(q), b[1]) THEN Dir
             ELSE None
        ELSE None]

\* The file systems with a root that is a link: the source tree is empty or
\* the entry "a" (for from_dir, what the directory elsewhere holds), and
\* to_dir/a holds nothing, a file or a link to from_dir/a.
LinkRootFs ==
    { MakeFs(IF roots = "linkFrom" THEN {} ELSE E, {},
             IF roots \in {"linkTo", "toIsBackup"} THEN <<>> ELSE (<<"a">> :> kind),
             <<<<>>, b>>, e, roots) :
        roots \in LinkRoots, E \in { {}, { <<"a">> } }, kind \in {"none", "file", "lsrc"},
        b \in {"absent", "empty"}, e \in BOOLEAN }

\* The file systems where a link in to_dir leads into another directory of
\* from_dir: the source tree is the file x/a and the empty directory y, and
\* to_dir/x is a link to from_dir/y.
CrossFs(x, y, b) ==
    [MakeFs({ <<x, "a">> }, {}, [p \in Relevant({ <<x, "a">> }) |-> "none"],
            <<<<>>, b>>, FALSE, "both")
        EXCEPT ![FromDir \o <<y>>] = Dir, ![ToDir \o <<x>>] = Link(FromDir \o <<y>>)]

CrossLinkFs ==
    { CrossFs(n[1], n[2], b) : n \in { <<"a", "b">>, <<"b", "a">> }, b \in {"absent", "empty"} }

\* The file systems where backup_dir is a directory the run also reaches another
\* way: backup_dir is a link to the directory elsewhere and so is to_dir/b,
\* with the entries a/a and b/a and a file at to_dir/a; or backup_dir is that
\* link, or a link to to_dir, with the entry a/b and a file at to_dir/a.
SharedBackupFs ==
    { MakeFs({ <<"a", "a">>, <<"b", "a">> }, {},
             (<<"a">> :> "file") @@ (<<"b">> :> "ldir")
                @@ [p \in Relevant({ <<"a", "a">>, <<"b", "a">> }) |-> "none"],
             <<<<>>, "empty">>, FALSE, "linkBackup") }
    \cup { MakeFs({ <<"a", "b">> }, {},
                  (<<"a">> :> "file") @@ [p \in Relevant({ <<"a", "b">> }) |-> "none"],
                  <<<<>>, "empty">>, FALSE, roots) : roots \in {"linkBackup", "backupIsTo"} }

\* The directories as the configuration names them.
Configured == [from |-> FromDir, to |-> ToDir, backup |-> BackupDir]

EnvIdle ==
    /\ env = <<>> /\ config = <<>> /\ order = <<>> /\ seed = <<>>
    /\ unresolved = <<>> /\ epc = "off" /\ eresult = "none" /\ evar = "" /\ passes = 0

Init ==
    /\ \/ \E E \in SourceTrees :
            \/ \E D \in DanglingSets(E), k \in ToLayouts(E), b \in BackupLayouts(E) :
                 \E e \in ElseLayouts(k) : fs = MakeFs(E, D, k, b, e, "both")
            \/ \E b \in { <<<<>>, "absent">>, <<<<>>, "empty">> }, roots \in BadRoots :
                 fs = MakeFs(IF roots \in {"noTo", "fileTo"} THEN E ELSE {}, {},
                             [p \in Relevant(E) |-> "none"], b, FALSE, roots)
       \/ fs \in LinkRootFs
       \/ fs \in CrossLinkFs
       \/ fs \in SharedBackupFs
    /\ dirs = Configured
    /\ src = {}
    /\ pc = "idle"
    /\ todo = <<>>
    /\ cur = <<>>
    /\ result = "none"
    /\ runNo = 0
    /\ fsStart = fs
    /\ fsEntry = fs
    /\ fsLink = fs
    /\ fsPrev = fs
    /\ processed = <<>>
    /\ seen = <<>>
    /\ EnvIdle

(***************************************************************************)
(* tasks::link::run, one action per step of the function.                  *)
(***************************************************************************)

\* Lines 55-65: backup_dir is created when nothing exists at its path.
EnsureBackupDir(f) ==
    IF ~Exists(f, BackupDir) THEN CreateDirAll(f, BackupDir) ELSE Done(f)

\* Lines 83-87: the walk opens from_dir; a directory yields its entries in an
\* order of its own.
OpenWalk(f, from_dir) ==
    { <<[dir |-> <<>>, rest |-> l]>> : l \in Listings(ReadDir(f, from_dir)) }

\* Lines 51-66, once from_dir (rf) and to_dir (rt) are resolved.
StartWalk(rf, rt, mk, rb) ==
    /\ fs' = mk.fs
    /\ fsEntry' = fs'
    /\ fsLink' = fs'
    /\ IF mk.err # ""
       THEN /\ pc' = "done" /\ result' = "CreateDirError"
            /\ UNCHANGED <<dirs, src, todo>>
       ELSE IF rb.err # ""
       THEN /\ pc' = "done" /\ result' = "MissingDir Backup"
            /\ UNCHANGED <<dirs, src, todo>>
       ELSE /\ pc' = "walk" /\ result' = "none"
            /\ dirs' = [from |-> rf.path, to |-> rt.path, backup |-> rb.path]
            /\ src' = Entries(mk.fs, rf.path)
            /\ todo' \in OpenWalk(mk.fs, rf.path)

\* Lines 44-87: the directories are resolved, backup_dir is created, and the
\* walk of from_dir is opened.  A second call starts where the first returned Ok.
Start ==
    /\ pc = "idle" \/ (pc = "done" /\ result = "ok")
    /\ runNo < MaxRuns
    /\ runNo' = runNo + 1
    /\ fsStart' = fs
    /\ fsPrev' = fs
    /\ processed' = <<>>
    /\ cur' = <<>>
    /\ \E rf \in { resolve_directory(fs, FromDir) }, rt \in { resolve_directory(fs, ToDir) } :
          IF rf.err # "" \/ rt.err # ""
          THEN /\ pc' = "done"
               /\ result' = IF rf.err # "" THEN "MissingDir From" ELSE "MissingDir To"
               /\ UNCHANGED <<fs, dirs, src, todo, fsEntry, fsLink>>
          ELSE \E mk \in { EnsureBackupDir(fs) } :
                 StartWalk(rf, rt, mk, resolve_directory(mk.fs, BackupDir))
    /\ UNCHANGED <<seen, envVars>>

\* The iterator has an entry to look at: the next one of the deepest directory.
Pending == todo # <<>> /\ Head(todo).rest # <<>>
NextEntry == Head(Head(todo).rest)
NextPath == Append(Head(todo).dir, NextEntry.name)

\* The iterator after that entry.
Advanced == <<[Head(todo) EXCEPT !.rest = Tail(@)]>> \o Tail(todo)

\* Lines 83-87, the iterator reaches a directory: it is opened and read, and
\* the filter of line 87 drops the entry for the directory itself.
OpenDir ==
    /\ pc = "walk"
    /\ Pending
    /\ NextEntry.dir
    /\ \E l \in Listings(ReadDir(fs, dirs.from \o NextPath)) :
           todo' = <<[dir |-> NextPath, rest |-> l]>> \o Advanced
    /\ UNCHANGED <<fs, dirs, src, pc, cur, result, runNo, fsStart, fsEntry, fsLink, fsPrev,
                   processed, seen, envVars>>

\* Lines 83-87, a directory has no entry left: the iterator goes back to the
\* directory above.
LeaveDir ==
    /\ pc = "walk"
    /\ todo # <<>>
    /\ Head(todo).rest = <<>>
    /\ todo' = Tail(todo)
    /\ UNCHANGED <<fs, dirs, src, pc, cur, result, runNo, fsStart, fsEntry, fsLink, fsPrev,
                   processed, seen, envVars>>

\* Variant of CreateParentDir without the `?`: after an error the walk goes on
\* with the next entry.
CreateParentDirGoesOn ==
    /\ pc = "walk"
    /\ Pending
    /\ ~NextEntry.dir
    /\ \E r \in { create_parent_dir(fs, dirs.to, NextPath, dirs.backup) } :
           /\ fs' = r.fs
           /\ fsLink' = r.fs
           /\ IF r.err # ""
              THEN pc' = "walk" /\ result' = r.err
              ELSE pc' = "clear" /\ result' = result
    /\ cur' = NextPath
    /\ todo' = Advanced
    /\ fsEntry' = fs
    /\ UNCHANGED <<dirs, src, runNo, fsStart, fsPrev, processed, seen, envVars>>

\* Lines 83-90: the iterator yields an entry that is not a directory, and
\* create_parent_dir is called for it.
CreateParentDir ==
    /\ pc = "walk"
    /\ Pending
    /\ ~NextEntry.dir
    /\ \E r \in { create_parent_dir(fs, dirs.to, NextPath, dirs.backup) } :
           /\ fs' = r.fs
           /\ fsLink' = r.fs
           /\ IF r.err # ""
              THEN pc' = "done" /\ result' = r.err
              ELSE pc' = "clear" /\ result' = result
    /\ cur' = NextPath
    /\ todo' = Advanced
    /\ fsEntry' = fs
    /\ UNCHANGED <<dirs, src, runNo, fsStart, fsPrev, processed, seen, envVars>>

\* Line 91, link_path lines 194-266: what is at to_path is cleared away, or the
\* function returns because the link there is already right.
ClearStep ==
    /\ pc = "clear"
    /\ \E c \in { ClearTarget(fs, dirs.from \o cur, dirs.to, cur, dirs.backup) } :
           /\ fs' = c.fs
           /\ IF c.err # "" THEN pc' = "done" /\ result' = c.err
              ELSE IF c.skip THEN pc' = "walk" /\ result' = result
              ELSE pc' = "create" /\ result' = result
           /\ processed' = IF c.err # "" \/ c.skip THEN Append(processed, cur) ELSE processed
    /\ UNCHANGED <<dirs, src, todo, cur, runNo, fsStart, fsEntry, fsLink, fsPrev, seen,
                   envVars>>

\* link_path lines 267-275: the link is created.
CreateLink ==
    /\ pc = "create"
    /\ \E r \in { LinkAfterClear(dirs.from \o cur, dirs.to, cur, Keep(Done(fs))) } :
           /\ fs' = r.fs
           /\ IF r.err # ""
              THEN pc' = "done" /\ result' = r.err
              ELSE pc' = "walk" /\ result' = result
    /\ processed' = Append(processed, cur)
    /\ UNCHANGED <<dirs, src, todo, cur, runNo, fsStart, fsEntry, fsLink, fsPrev, seen,
                   envVars>>

\* Lines 99-105: when the logger admits Debug (dbg) the arguments of debug! are
\* evaluated, and fs::read_dir(&to_dir).unwrap() panics if to_dir cannot be read.
FinalLog(f, to_dir, dbg) == IF dbg /\ ~IsDir(f, to_dir) THEN "panic" ELSE "ok"

\* Lines 94-117: the walk is over; backup_dir is removed if that succeeds, and
\* the final contents are logged.  The level of the logger is the caller's.
Finish ==
    /\ pc = "walk"
    /\ todo = <<>>
    /\ fs' = RemoveDir(fs, dirs.backup).fs
    /\ pc' = "done"
    /\ \E dbg \in BOOLEAN : result' = FinalLog(fs', dirs.to, dbg)
    /\ cur' = <<>>
    /\ UNCHANGED <<dirs, src, todo, runNo, fsStart, fsEntry, fsLink, fsPrev, processed,
                   seen, envVars>>

Next ==
    \/ Start \/ OpenDir \/ LeaveDir \/ CreateParentDir \/ ClearStep \/ CreateLink
    \/ Finish

Spec == Init /\ [][Next]_vars

(***************************************************************************)
(* The same run with create_parent_dir taken one step at a time: the first *)
(* create_dir_all, then one step per ancestor of the conflict walk, then   *)
(* the second create_dir_all.                                              *)
(***************************************************************************)

\* Lines 90 and 141-143: the first create_dir_all for the next entry; when it
\* fails the or_else closure is entered.
ParentBegin ==
    /\ pc = "walk"
    /\ Pending
    /\ ~NextEntry.dir
    /\ \E first \in { CreateDirAll(fs, Parent(dirs.to \o NextPath)) } :
           IF first.err = ""
           THEN fs' = first.fs /\ fsLink' = first.fs /\ pc' = "clear"
           ELSE fs' = fs /\ fsLink' = fsLink /\ pc' = "ancestors"
    /\ cur' = NextPath
    /\ todo' = Advanced
    /\ fsEntry' = fs
    /\ seen' = <<>>
    /\ UNCHANGED <<dirs, src, result, runNo, fsStart, fsPrev, processed, envVars>>

\* Lines 144-179: one iteration of the loop over the ancestors.
AncestorExamine ==
    /\ pc = "ancestors"
    /\ Len(seen) < Len(Ancestors(cur))
    /\ \E st \in { AncestorStep(fs, dirs.to, Ancestors(cur)[Len(seen) + 1], dirs.backup) } :
           /\ fs' = st.fs
           /\ IF st.err # ""
              THEN pc' = "done" /\ result' = st.err
              ELSE pc' = pc /\ result' = result
    /\ seen' = Append(seen, Ancestors(cur)[Len(seen) + 1])
    /\ UNCHANGED <<dirs, src, todo, cur, runNo, fsStart, fsEntry, fsLink, fsPrev,
                   processed, envVars>>

\* Lines 180-182: the loop is over and the directory is created again.
ParentAgain ==
    /\ pc = "ancestors"
    /\ Len(seen) >= Len(Ancestors(cur))
    /\ \E r \in { CreateParentAgain(dirs.to, cur, Done(fs)) } :
           /\ fs' = r.fs
           /\ fsLink' = r.fs
           /\ IF r.err # ""
              THEN pc' = "done" /\ result' = r.err
              ELSE pc' = "clear" /\ result' = result
    /\ UNCHANGED <<dirs, src, todo, cur, runNo, fsStart, fsEntry, fsPrev, processed,
                   seen, envVars>>

StepNext ==
    \/ Start \/ OpenDir \/ LeaveDir \/ ParentBegin \/ AncestorExamine \/ ParentAgain
    \/ ClearStep \/ CreateLink \/ Finish

StepSpec == Init /\ [][StepNext]_vars

(***************************************************************************)
(* env::get_env (src/src/env.rs).                                          *)
(* A value is a sequence of tokens: a token that is a variable name stands *)
(* for the reference ${name}, any other token is literal text.  Expansion  *)
(* replaces a reference by the tokens of the value looked up, so text of   *)
(* the form ${name} inside a looked-up value is a reference when the       *)
(* result is expanded again.                                               *)
(***************************************************************************)
Names == {"A", "B", "C", "X", "N", "M"}
IsRef(t) == t \in Names

\* The references of a value, as the set of names.
Refs(val) == { val[i] : i \in { j \in DOMAIN val : IsRef(val[j]) } }

\* Lines 32-45: shellexpand with the context of the first pass, from token i on.
\* base is env (the inherited variables), keys the keys of config_env; out is
\* the expansion so far and n the number of times line 36 pushed the key.
RECURSIVE FirstExpand(_, _, _, _, _, _)
FirstExpand(val, i, base, keys, out, n) ==
    IF i > Len(val) THEN [err |-> "", out |-> out, n |-> n]
    ELSE IF ~IsRef(val[i]) THEN FirstExpand(val, i + 1, base, keys, Append(out, val[i]), n)
    ELSE IF val[i] \in DOMAIN base
    THEN FirstExpand(val, i + 1, base, keys, out \o base[val[i]], n)
    ELSE IF val[i] \in keys
    THEN FirstExpand(val, i + 1, base, keys, Append(out, val[i]), n + 1)
    ELSE [err |-> val[i], out |-> out, n |-> n]

\* n copies of key appended to the queue.
RECURSIVE PushTimes(_, _, _)
PushTimes(queue, key, n) ==
    IF n = 0 THEN queue ELSE PushTimes(Append(queue, key), key, n - 1)

\* Lines 29-52: the loop over config_env in iteration order ord, from index i on.
RECURSIVE FirstLoop(_, _, _, _, _, _)
\* Variant of FirstKey that goes on past a failed lookup.
FirstKeyNoError(cfg, ord, i, base, calc, queue, x) ==
    FirstLoop(cfg, ord, i + 1, base, (ord[i] :> x.out) @@ calc, PushTimes(queue, ord[i], x.n))

FirstKey(cfg, ord, i, base, calc, queue, x) ==
    IF x.err # "" THEN [err |-> x.err, calc |-> calc, queue |-> queue]
    ELSE FirstLoop(cfg, ord, i + 1, base,
                   (ord[i] :> x.out) @@ calc, PushTimes(queue, ord[i], x.n))

\* Variant of FirstLoop that inserts into env at once, so that a key visited
\* earlier is found by the lookups of the keys visited later.
FirstLoopDirect(cfg, ord, i, base, calc, queue) ==
    IF i > Len(ord) THEN [err |-> "", calc |-> calc, queue |-> queue]
    ELSE FirstKey(cfg, ord, i, base, calc, queue,
                  FirstExpand(cfg[ord[i]], 1, calc @@ base, DOMAIN cfg, <<>>, 0))

FirstLoop(cfg, ord, i, base, calc, queue) ==
    IF i > Len(ord) THEN [err |-> "", calc |-> calc, queue |-> queue]
    ELSE FirstKey(cfg, ord, i, base, calc, queue,
                  FirstExpand(cfg[ord[i]], 1, base, DOMAIN cfg, <<>>, 0))

\* Lines 68-82: shellexpand with the context of the loop, from token i on; hit
\* tells whether line 72 pushed the index.
RECURSIVE LoopExpand(_, _, _, _, _, _)
LoopExpand(val, i, e, queue, out, hit) ==
    IF i > Len(val) THEN [err |-> "", out |-> out, hit |-> hit]
    ELSE IF ~IsRef(val[i]) THEN LoopExpand(val, i + 1, e, queue, Append(out, val[i]), hit)
    ELSE IF \E j \in DOMAIN queue : queue[j] = val[i]
    THEN LoopExpand(val, i + 1, e, queue, Append(out, val[i]), hit)
    ELSE IF val[i] \in DOMAIN e
    THEN LoopExpand(val, i + 1, e, queue, out \o e[val[i]], TRUE)
    ELSE [err |-> val[i], out |-> out, hit |-> hit]

\* Lines 64-87: the for loop of one pass over the queue, from index i on.
RECURSIVE PassLoop(_, _, _, _)
PassKey(e, queue, i, resolved, x) ==
    IF x.err # "" THEN [err |-> x.err, env |-> e, resolved |-> resolved]
    ELSE PassLoop([e EXCEPT ![queue[i]] = x.out], queue, i + 1,
                  IF x.hit THEN resolved \cup {i} ELSE resolved)

PassLoop(e, queue, i, resolved) ==
    IF i > Len(queue) THEN [err |-> "", env |-> e, resolved |-> resolved]
    ELSE PassKey(e, queue, i, resolved, LoopExpand(e[queue[i]], 1, e, queue, <<>>, FALSE))

\* Lines 95-105: the queue without the resolved indices.
RECURSIVE Retain(_, _, _)
Retain(queue, resolved, i) ==
    IF i > Len(queue) THEN <<>>
    ELSE IF i \in resolved THEN Retain(queue, resolved, i + 1)
    ELSE <<queue[i]>> \o Retain(queue, resolved, i + 1)

\* Lines 60-109: the while loop from the mapping e and the queue on, as
\* [result, env]; env is the returned mapping, empty when the call fails.
RECURSIVE Resolve(_, _)
ResolveNext(queue, r) ==
    IF r.err # "" THEN [result |-> "lookup", env |-> <<>>]
    ELSE IF r.resolved = {} THEN [result |-> "cycle", env |-> <<>>]
    ELSE Resolve(r.env, Retain(queue, r.resolved, 1))

Resolve(e, queue) ==
    IF queue = <<>> THEN [result |-> "ok", env |-> e]
    ELSE ResolveNext(queue, PassLoop(e, queue, 1, {}))

\* Lines 26-56 followed by the loop, r being the outcome of the first pass.
ResolveAfterFirst(sd, r) ==
    IF r.err # "" THEN [result |-> "lookup", env |-> <<>>]
    ELSE Resolve(r.calc @@ sd, r.queue)

\* get_env for the seeded mapping sd, the raw config cfg and the iteration order ord.
get_env(sd, cfg, ord) == ResolveAfterFirst(sd, FirstLoop(cfg, ord, 1, sd, <<>>, <<>>))

\* The raw configs of the model: the keys and, for each, a value of the pool.
KeySets == { {"A"}, {"A", "B"}, {"A", "B", "C"}, {"A", "X"} }

ValuePool ==
    { <<"1">>, <<"A">>, <<"B">>, <<"C">>, <<"X">>, <<"N">>,
      <<"A", "B">>, <<"A", "A">>, <<"B", "C">>, <<"X", "B">>, <<"A", "N">>, <<"M">> }

Configs == UNION { [K -> ValuePool] : K \in KeySets }

\* env after lines 15-22: X is inherited or not, and its value is plain text
\* or text that reads as a reference.
Seeds == { <<>>, "X" :> <<"x">>, "X" :> <<"A">>, "X" :> <<"N">> }

\* The orders in which a HashMap with the keys K can be iterated.
Orders(K) ==
    { s \in [1..Cardinality(K) -> K] : \A i, j \in DOMAIN s : i # j => s[i] # s[j] }

LinkIdle ==
    /\ fs = <<>> /\ dirs = <<>> /\ src = {} /\ pc = "off" /\ todo = <<>> /\ cur = <<>>
    /\ result = "none"
    /\ runNo = 0 /\ fsStart = <<>> /\ fsEntry = <<>> /\ fsLink = <<>> /\ fsPrev = <<>>
    /\ processed = <<>> /\ seen = <<>>

EnvInit ==
    /\ env = <<>> /\ config = <<>> /\ order = <<>> /\ seed = <<>>
    /\ unresolved = <<>> /\ epc = "idle" /\ eresult = "none" /\ evar = "" /\ passes = 0
    /\ LinkIdle

\* Lines 11-24: the call with its arguments; env is seeded with the inherited
\* variables that are set, and the queue is empty.
SeedFrom(C) ==
    /\ epc = "idle"
    /\ \E c \in C, s \in Seeds :
          /\ config' = c
          /\ seed' = s
          /\ env' = s
          /\ order' \in Orders(DOMAIN c)
    /\ unresolved' = <<>>
    /\ epc' = "first"
    /\ UNCHANGED <<eresult, evar, passes, linkVars>>

Seed == SeedFrom(Configs)

\* Lines 26-56: the first pass; `?` returns the EnvLookup error at once.
FirstPass ==
    /\ epc = "first"
    /\ \E r \in { FirstLoop(config, order, 1, env, <<>>, <<>>) } :
          IF r.err # ""
          THEN /\ epc' = "done" /\ eresult' = "lookup" /\ evar' = r.err
               /\ UNCHANGED <<env, unresolved>>
          ELSE /\ epc' = "loop"
               /\ env' = r.calc @@ env
               /\ unresolved' = r.queue
               /\ UNCHANGED <<eresult, evar>>
    /\ UNCHANGED <<config, order, seed, passes, linkVars>>

\* Lines 60-106: one pass of the while loop.
Pass ==
    /\ epc = "loop"
    /\ unresolved # <<>>
    /\ passes' = passes + 1
    /\ \E r \in { PassLoop(env, unresolved, 1, {}) } :
          IF r.err # ""
          THEN /\ epc' = "done" /\ eresult' = "lookup" /\ evar' = r.err
               /\ UNCHANGED <<env, unresolved>>
          ELSE /\ env' = r.env
               /\ IF r.resolved = {}
                  THEN /\ epc' = "done" /\ eresult' = "cycle"
                       /\ UNCHANGED <<unresolved, evar>>
                  ELSE /\ unresolved' = Retain(unresolved, r.resolved, 1)
                       /\ UNCHANGED <<epc, eresult, evar>>
    /\ UNCHANGED <<config, order, seed, linkVars>>

\* Lines 108-109: the queue is empty and env is returned.
Return ==
    /\ epc = "loop"
    /\ unresolved = <<>>
    /\ epc' = "done"
    /\ eresult' = "ok"
    /\ UNCHANGED <<env, config, order, seed, unresolved, evar, passes, linkVars>>

EnvNext == Seed \/ FirstPass \/ Pass \/ Return

EnvSpec == EnvInit /\ [][EnvNext]_vars

\* The calls with a raw config of at most two keys.
SeedSmall == SeedFrom({ c \in Configs : Cardinality(DOMAIN c) <= 2 })

EnvLiveNext == SeedSmall \/ FirstPass \/ Pass \/ Return

\* Once called, get_env runs to its return: every step of its body is taken.
EnvLive ==
    EnvInit /\ [][EnvLiveNext]_vars /\ WF_vars(FirstPass) /\ WF_vars(Pass) /\ WF_vars(Return)

(***************************************************************************)
(* Properties of get_env.                                                  *)
(***************************************************************************)
\* The names referenced by the raw config.
ConfigRefs(cfg) == UNION { Refs(cfg[k]) : k \in DOMAIN cfg }

\* The referenced names that are neither seeded nor keys of the raw config.
Missing == ConfigRefs(config) \ (DOMAIN seed \cup DOMAIN config)

\* The config keys a key references, and the keys reachable along references.
Edge(cfg, k) == Refs(cfg[k]) \cap DOMAIN cfg

RECURSIVE ReachN(_, _, _)
ReachN(cfg, S, n) ==
    IF n = 0 THEN S ELSE ReachN(cfg, S \cup UNION { Edge(cfg, k) : k \in S }, n - 1)

CycleKeys(cfg) ==
    { k \in DOMAIN cfg : k \in ReachN(cfg, Edge(cfg, k), Cardinality(DOMAIN cfg)) }

\* No inherited value contains text that reads as a reference.
PlainSeed == \A n \in DOMAIN seed : Refs(seed[n]) = {}

\* C5 (as stated): when the references between config keys are acyclic and
\* every referenced name is seeded or a config key, get_env returns Ok and no
\* value of a config key in the returned mapping contains a reference, whatever
\* the iteration order.  Stated for inherited values that are plain text.
AcyclicResolution ==
    (epc = "done" /\ PlainSeed /\ CycleKeys(config) = {} /\ Missing = {})
        => (eresult = "ok" /\ \A k \in DOMAIN config : Refs(env[k]) = {})

\* C6 (as stated, the part "never returns a mapping"): when some config keys
\* reference each other in a cycle and none of them is seeded, get_env does
\* not return Ok.
CycleNeverOk ==
    (epc = "done" /\ CycleKeys(config) # {} /\ CycleKeys(config) \cap DOMAIN seed = {})
        => eresult # "ok"

\* C7 (as stated): for each name referenced by the raw config that is neither
\* seeded nor a config key, get_env fails with EnvLookup carrying that name.
MissingEachName ==
    epc = "done" => \A n \in Missing : (eresult = "lookup" /\ evar = n)

\* C7 (amended): if the raw config references a name that is neither seeded
\* nor a config key, get_env fails with EnvLookup carrying one such name, and
\* the first pass returns before anything is put into the mapping.
MissingVariable ==
    (epc = "done" /\ Missing # {})
        => (eresult = "lookup" /\ evar \in Missing /\ env = seed /\ passes = 0)

MissingVariableWitness ==
    epc = "done" /\ Cardinality(Missing) = 2 /\ eresult = "lookup" /\ DOMAIN seed # {}

\* C8: get_env terminates, and every pass of the loop strictly
\* shrinks the queue or ends the call with the zero-progress failure.
PassShrinksOrCycle ==
    /\ [][Pass => (Len(unresolved') < Len(unresolved) \/ eresult' = "cycle")]_vars
    /\ (epc = "first") ~> (epc = "done")

(***************************************************************************)
(* Properties of tasks::link::run.                                         *)
(***************************************************************************)
\* to_dir/r is a symbolic link whose target is the absolute path from_dir/r.
Linked(f, r) == LStat(f, ToDir \o r) = Link(dirs.from \o r)

\* C1 (as stated): when run returns Ok, to_dir/r is a link to from_dir/r for
\* every non-directory entry r below from_dir.
Coverage ==
    (pc = "done" /\ result = "ok") => \A r \in src : Linked(fs, r)

\* The trees below root are the same in the file systems f and g.
SameBelow(f, g, root) ==
    \A q \in AllPaths : IsPrefix(root, q) => NodeAt(f, q) = NodeAt(g, q)

\* C2: a further run on the file system a successful run left leaves the tree
\* of to_dir as that run produced it and puts nothing new in backup_dir.
Idempotence ==
    (pc = "done" /\ runNo >= 2) =>
        /\ SameBelow(fs, fsPrev, dirs.to)
        /\ SameBelow(fs, fsPrev, dirs.backup)

\* The target paths of a run: to_dir/r for the entries and to_dir/p for their ancestors.
Targets == UNION { Prefixes(r) : r \in src }

\* What was at to_dir/r when the run started, and the place it was at.
StartNode(r) == LStat(fsStart, ToDir \o r)
StartAt(r) == Place(fsStart, ToDir \o r).path

\* The paths below a directory of the model: itself and a file named "a".
Suffixes == { <<>>, <<"a">> }
SameTree(f, p, g, q) == \A s \in Suffixes : NodeAt(f, p \o s) = NodeAt(g, q \o s)

\* The file or directory that was at to_dir/r is no longer at its place.
Displaced(r) ==
    /\ StartNode(r).kind \in {"file", "dir"}
    /\ IF StartNode(r).kind = "file"
       THEN NodeAt(fs, StartAt(r)) # StartNode(r)
       ELSE NodeAt(fs, StartAt(r)).kind # "dir"

\* It is at backup_dir/r, with what it held.
InBackup(r) ==
    /\ LStat(fs, BackupDir \o r).kind = StartNode(r).kind
    /\ SameTree(fs, Place(fs, BackupDir \o r).path, fsStart, StartAt(r))

\* C3: after the run, every file or directory that was at a target
\* path to_dir/r and was displaced is unchanged at backup_dir/r.
NoDataLossEveryPath ==
    pc = "done" => \A r \in Targets : Displaced(r) => InBackup(r)

\* The scenario of C4: a/b is an entry and to_dir/a is a regular file.
AB == <<"a", "b">>
Scenario(f) == AB \in Entries(f, FromDir) /\ LStat(f, ToDir \o <<"a">>).kind = "file"

ScenarioAfter ==
    /\ result = "ok"
    /\ LStat(fs, ToDir \o <<"a">>) = Dir
    /\ Linked(fs, AB)
    /\ LStat(fs, BackupDir \o <<"a">>) = LStat(fsStart, ToDir \o <<"a">>)

\* C4: in the scenario the run returns Ok, to_dir/a is a directory,
\* to_dir/a/b is a link to from_dir/a/b and backup_dir/a is the file that was
\* at to_dir/a.
ConflictScenarioAlways ==
    (pc = "done" /\ runNo = 1 /\ Scenario(fsStart)) => ScenarioAfter

\* C9 (as stated): when to_dir/r is a link to from_dir/r before the entry r is
\* processed, create_parent_dir and link_path leave the file system as it is
\* at every step, and no link is created.
AlreadyLinked ==
    (pc \in {"clear", "create", "walk", "done"} /\ cur # <<>> /\ Linked(fsEntry, cur))
        => (fs = fsEntry /\ pc # "create")

\* What link_path finds at to_dir/cur, and the place it is at.
PriorNode == LStat(fsLink, ToDir \o cur)
PriorPlace == Place(fsLink, ToDir \o cur).path

BackupSame == \A q \in DOMAIN fs : IsPrefix(dirs.backup, q) => fs[q] = fsLink[q]
OnlyLink == fs = [fsLink EXCEPT ![PriorPlace] = Link(dirs.from \o cur)]

\* C10: after link_path returned Ok for the entry cur, to_dir/cur is a link to
\* from_dir/cur, and (i) a link to something else, or to nothing, was replaced
\* and backup_dir is as before, (ii) a directory is at backup_dir/cur with what
\* it held, (iii) a regular file is at backup_dir/cur, (iv) when nothing was
\* there the link is the only change.
DecisionTable ==
    (pc = "walk" /\ cur # <<>>) =>
        /\ Linked(fs, cur)
        /\ (PriorNode.kind = "link" /\ PriorNode # Link(dirs.from \o cur))
               => (BackupSame /\ OnlyLink)
        /\ PriorNode.kind = "dir"
               => (/\ NodeAt(fs, dirs.backup \o cur) = Dir
                   /\ SameTree(fs, dirs.backup \o cur, fsLink, PriorPlace))
        /\ PriorNode.kind = "file" => NodeAt(fs, dirs.backup \o cur) = PriorNode
        /\ PriorNode.kind = "none" => OnlyLink

\* A directory that holds a file was moved to backup_dir and the link created.
DecisionTableWitness ==
    /\ pc = "walk" /\ cur # <<>>
    /\ PriorNode.kind = "dir"
    /\ NodeAt(fsLink, PriorPlace \o <<"a">>).kind = "file"
    /\ Linked(fs, cur)

\* from_dir and to_dir as resolve_directory sees them when the run starts.
RootsMissing == ~IsDir(fsStart, FromDir) \/ ~IsDir(fsStart, ToDir)

\* C11: when from_dir or to_dir is not a directory, run returns MissingDir for
\* it (for from_dir when both are missing) and the file system is as it was:
\* backup_dir is not created and nothing is linked.
PreconditionFailure ==
    (runNo >= 1 /\ RootsMissing)
        => /\ pc = "done"
           /\ result = IF ~IsDir(fsStart, FromDir) THEN "MissingDir From" ELSE "MissingDir To"
           /\ fs = fsStart

\* to_dir is missing, from_dir has an entry and backup_dir was absent.
PreconditionFailureWitness ==
    /\ pc = "done" /\ result = "MissingDir To"
    /\ Entries(fs, FromDir) # {}
    /\ NodeAt(fsStart, BackupDir).kind = "none"
    /\ fs = fsStart

\* The scenario of C12: a/b/a is an entry, to_dir/a is a directory and
\* to_dir/a/b a regular file; backup_dir holds nothing at a.
ABA == <<"a", "b", "a">>
DeepScenario(f) ==
    /\ ABA \in Entries(f, FromDir)
    /\ NodeAt(f, ToDir \o <<"a">>) = Dir
    /\ NodeAt(f, ToDir \o AB).kind = "file"
    /\ NodeAt(f, BackupDir \o <<"a">>).kind = "none"

\* C12 (as stated): in that scenario the walk passes the directory to_dir/a:
\* the run returns Ok, the file is at backup_dir/a/b, to_dir/a/b is a
\* directory and to_dir/a/b/a is the link.
AncestorWalkPassesDirectories ==
    (pc = "done" /\ runNo = 1 /\ DeepScenario(fsStart))
        => /\ result = "ok"
           /\ NodeAt(fs, BackupDir \o AB) = File(ToDir \o AB)
           /\ NodeAt(fs, ToDir \o AB) = Dir
           /\ Linked(fs, ABA)

\* Before create_parent_dir ran for the entry cur, the ancestor to_dir/p was a
\* symbolic link that is not a link to a directory.
BlockingLink(p) ==
    /\ LStat(fsEntry, ToDir \o p).kind = "link"
    /\ ~IsDir(fsEntry, ToDir \o p)

\* What backup_dir holds is the same in f and g.
SameBackup(f, g) == \A q \in DOMAIN f : Head(q) = "backup" => f[q] = g[q]

\* C13 (as stated): when an ancestor of the entry was a symbolic link, to a
\* regular file or broken, create_parent_dir leaves backup_dir as it was and
\* the link is no longer at its place.
BlockingSymlinkRemoved ==
    (cur # <<>> /\ pc \in {"clear", "create", "walk", "done"})
        => \A p \in Prefixes(cur) \ {cur} :
               BlockingLink(p) => /\ SameBackup(fsEntry, fsLink)
                                  /\ LStat(fsLink, ToDir \o p).kind # "link"

(***************************************************************************)
(* Further properties of get_env.                                          *)
(***************************************************************************)
\* The keys in a queue.
InQueue(queue) == { queue[i] : i \in DOMAIN queue }

\* The queue the first pass builds for this call.
FirstQueue == FirstLoop(config, order, 1, seed, <<>>, <<>>).queue

\* C14 (as stated): in the loop and at its end, a key that was queued and is
\* no longer in the queue has a value without references to config keys.
QueueInvariant ==
    (epc \in {"loop", "done"} /\ eresult # "lookup")
        => \A k \in InQueue(FirstQueue) \ InQueue(unresolved) :
               Refs(env[k]) \cap DOMAIN config = {}

\* Success or failure, and the mapping on success.
Outcome(r) == [ok |-> r.result = "ok", env |-> r.env]

\* C15: the call that ran with the iteration order `order` ended as get_env
\* ends for every iteration order of the same raw config and seeded mapping:
\* failure or success alike, and on success the same mapping.
OrderIndependence ==
    epc = "done"
        => \A o \in Orders(DOMAIN config) :
               Outcome(get_env(seed, config, o))
                   = [ok |-> eresult = "ok", env |-> IF eresult = "ok" THEN env ELSE <<>>]

\* A call with three keys, a key that waits for another and an inherited
\* variable returned Ok after two passes.
OrderIndependenceWitness ==
    /\ epc = "done" /\ eresult = "ok" /\ passes >= 2
    /\ Cardinality(DOMAIN config) = 3
    /\ DOMAIN seed # {}

(***************************************************************************)
(* Further properties of tasks::link::run.                                 *)
(***************************************************************************)
\* What was at to_dir/r when the run started (a file, a directory or a link)
\* has left its place and is at backup_dir/r.
MovedToBackup(r) ==
    /\ StartNode(r).kind # "none"
    /\ NodeAt(fs, StartAt(r)) # StartNode(r)
    /\ LStat(fs, BackupDir \o r) = StartNode(r)

\* C16: backup_dir (as resolved) is a directory throughout the walk; after a run that
\* returned Ok, started with backup_dir absent or empty and moved nothing into
\* it, backup_dir does not exist; and the end of the run removes backup_dir
\* when it is empty and otherwise leaves the file system as it is and
\* returns Ok.
BackupLifecycle ==
    /\ [](pc \in {"walk", "clear", "create"} => NodeAt(fs, dirs.backup) = Dir)
    /\ []((/\ pc = "done" /\ result = "ok"
           /\ Below(fsStart, Canonical(fsStart, BackupDir)) = {}
           /\ \A r \in Targets : ~MovedToBackup(r))
              => ~Exists(fs, BackupDir))
    /\ [][Finish => IF Below(fs, dirs.backup) # {} THEN fs' = fs /\ result' = "ok"
                    ELSE fs' = [fs EXCEPT ![dirs.backup] = None]]_vars

\* create_parent_dir or link_path returned an error for the entry cur.
Failed == cur # <<>> /\ result \notin {"ok", "none"}

\* The entries after cur in the walk, and those before it.
Later == { r \in src : r # cur /\ \A i \in DOMAIN processed : processed[i] # r }
Earlier == { r \in src : r # cur /\ r \notin Later }

Resolved(f, path) ==
    ~Exists(f, ToDir \o path) /\ ~SymlinkMetadataOk(f, ToDir \o path)

\* C18: the conflict walk of create_parent_dir examines the immediate parent of
\* the entry first and then, one by one, the parent of the ancestor before;
\* the entry and the empty path are never examined; the walk is left without
\* an error only after the top-level component; and when the next ancestor is
\* examined nothing is left at the path of the one before.
DepthFirstOrder ==
    /\ [](cur # <<>> => \A i \in 1..Len(seen) :
             /\ seen[i] # <<>> /\ seen[i] # cur
             /\ seen[i] = Parent(IF i = 1 THEN cur ELSE seen[i - 1]))
    /\ [][(pc = "ancestors" /\ pc' = "ancestors" /\ seen # <<>>)
              => Resolved(fs, seen[Len(seen)])]_vars
    /\ [][(pc = "ancestors" /\ pc' # "ancestors" /\ seen' = seen)
              => (seen # <<>> /\ Len(seen[Len(seen)]) = 1)]_vars

\* The walk got past a file at the parent, which is now in backup_dir, and
\* went on to the grandparent.
DepthFirstOrderWitness ==
    /\ Len(seen) = 2
    /\ NodeAt(fs, BackupDir \o seen[1]).kind = "file"
    /\ NodeAt(fsEntry, ToDir \o seen[1]).kind = "file"

(***************************************************************************)
(* The queue of get_env and the map it returns.                            *)
(***************************************************************************)

\* C19: the unresolved queue, after the first pass and after every later pass,
\* holds each config key at most once.
QueueKeysOnce ==
    epc \in {"loop", "done"} =>
        \A i, j \in DOMAIN unresolved : i # j => unresolved[i] # unresolved[j]

\* The value val with every reference replaced by the value m has for the name.
RECURSIVE Substituted(_, _, _)
Substituted(val, m, i) ==
    IF i > Len(val) THEN <<>>
    ELSE (IF IsRef(val[i]) /\ val[i] \in DOMAIN m THEN m[val[i]] ELSE <<val[i]>>)
         \o Substituted(val, m, i + 1)

\* C20: when get_env returns Ok(m), m[k] is, for every config key k, the raw
\* config value of k with every reference replaced by the value m has for the
\* name referred to.
FixedPointConsistency ==
    (epc = "done" /\ eresult = "ok") =>
        \A k \in DOMAIN config : env[k] = Substituted(config[k], env, 1)

(***************************************************************************)
(* What a run leaves alone.                                                *)
(***************************************************************************)

\* The paths of the model at or below from_dir.
UnderFrom == { q \in AllPaths : IsPrefix(FromDir, q) }

\* C21: a run never creates, removes or renames a path under from_dir: at
\* every step of the run the source tree is what it was when the run started.
SourceUntouched ==
    \A q \in UnderFrom : NodeAt(fs, q) = NodeAt(fsStart, q)

\* The paths of the model below backup_dir.
UnderBackup == { q \in AllPaths : IsProperPrefix(BackupDir, q) }

\* C22: what was in backup_dir when the run started is still there, unchanged,
\* at every step of the run.
BackupContentKept ==
    \A q \in UnderBackup :
        NodeAt(fsStart, q).kind # "none" => NodeAt(fs, q) = NodeAt(fsStart, q)

====
